---- MODULE Spec2Model ----
(***************************************************************************)
(* packetsniffer.py: a dpkt.pcap.Reader over one capture file, and a loop  *)
(* that decodes every yielded buffer as Ethernet, prints the link layer,   *)
(* then reaches for the network and transport layers (eth.data, ip.data)   *)
(* and prints them, skipping the frame on any exception.                   *)
(*                                                                         *)
(* A frame's bytes are abstracted to what the decoders look at: how many   *)
(* complete protocol headers the buffer holds (layers), the ether-type     *)
(* class and the protocol class.  A record whose data were cut short by    *)
(* the end of the file holds only the headers that are still complete.     *)
(***************************************************************************)
EXTENDS Integers, Sequences, FiniteSets, TLC

VARIABLES file, srcOpen, pc, pos, pkt, eth, ip, tcp, out, yielded, fault,
          flagsByte, flagsSet

vars == <<file, srcOpen, pc, pos, pkt, eth, ip, tcp, out, yielded, fault,
          flagsByte, flagsSet>>

\* Longest capture file explored, in records.
MaxRecords == 3

(***************************************************************************)
(* Inputs: the contents of the capture file.                               *)
(***************************************************************************)
\* The buffers a record can hold, one per decode path of the loop body.
FrameKinds ==
    { [layers |-> 0, etype |-> "other", proto |-> "other"],
      [layers |-> 1, etype |-> "ip",    proto |-> "tcp"],
      [layers |-> 3, etype |-> "other", proto |-> "other"],
      [layers |-> 2, etype |-> "ip",    proto |-> "tcp"],
      [layers |-> 3, etype |-> "ip",    proto |-> "other"],
      [layers |-> 3, etype |-> "ip",    proto |-> "tcp"] }

\* How the file ends: after a complete record, in the middle of the last
\* record's data, or in the middle of a record header that follows it.
Tails == {"clean", "truncatedData", "partialHeader"}

RecSeqs == UNION { [1..n -> FrameKinds] : n \in 0..MaxRecords }

\* kept: the complete headers left in the last record's data when the file
\* ends inside them (a cut in the payload leaves them all).
Files ==
    { f \in [magic : BOOLEAN, recs : RecSeqs, tail : Tails, kept : 0..3] :
        IF f.tail = "truncatedData"
        THEN Len(f.recs) > 0 /\ f.kept <= f.recs[Len(f.recs)].layers
        ELSE f.kept = 0 }

NoPkt == [layers |-> 0, etype |-> "none", proto |-> "none"]

\* A name of the module that no statement has bound yet.
Unbound == [kind |-> "unbound", from |-> 0, pkt |-> NoPkt]

\* No exception has left the script.
NoFault == [exc |-> "none", at |-> "none"]

NoFlags == [fin |-> FALSE, syn |-> FALSE, rst |-> FALSE, psh |-> FALSE,
            ack |-> FALSE, urg |-> FALSE, ece |-> FALSE, cwr |-> FALSE]

(***************************************************************************)
(* dpkt, as the loop uses it.                                              *)
(***************************************************************************)
\* pcap.Reader.__iter__: a header is read, then read(caplen) returns what the
\* file still holds, and the pair is yielded without comparing the lengths.
ReaderBuf(f, i) ==
    IF i = Len(f.recs) /\ f.tail = "truncatedData"
    THEN [f.recs[i] EXCEPT !.layers = f.kept]
    ELSE f.recs[i]

\* The reader's position in the file after yielding record p + 1: the file
\* object is only ever read forward.
ReaderRewinds(f, p) == IF p + 1 >= Len(f.recs) THEN 0 ELSE p + 1
ReaderAdvance(f, p) == p + 1

\* ethernet.Ethernet(buf) raises NeedData on a buffer shorter than its header.
EthernetRaises(b) == b.layers < 1

Ethernet(b, i) == [kind |-> "Ethernet", from |-> i, pkt |-> b]

\* eth.data: the decoded network packet, or the raw bytes when the ether-type
\* is not known or the network header does not unpack.
EthData(e) ==
    [kind |-> IF e.pkt.layers >= 2 /\ e.pkt.etype = "ip" THEN "IP" ELSE "bytes",
     from |-> e.from, pkt |-> e.pkt]

\* ip.data on a decoded packet: the decoded segment, or the raw payload.
IpData(n) ==
    [kind |-> IF n.pkt.layers >= 3 /\ n.pkt.proto = "tcp" THEN "TCP" ELSE "bytes",
     from |-> n.from, pkt |-> n.pkt]

\* ip.data raises AttributeError when ip is a bytes object.
DataRaisesNoTcpAttr(n) == n.kind = "bytes" \/ IpData(n).kind = "bytes"
DataRaises(n) == n.kind = "bytes"

(***************************************************************************)
(* The two handlers of the loop body.                                      *)
(***************************************************************************)
\* "except:" names no exception class.
CatchesNeedDataOnly(exc) == exc = "NeedData"
Catches(exc) == TRUE

\* Where "continue" in the first handler leaves the control.
PassLinkExcept == "print_eth"
BreakLinkExcept == "exit"
AfterLinkExcept == "for"

\* What the first handler adds to the output: nothing.
LinkExceptOut(o, i, exc) == o

\* What the second handler adds to the output: nothing.
NetExceptOutLogged(o, i, exc) ==
    Append(o, [frame |-> i, layer |-> "error", kind |-> exc, from |-> i])
NetExceptOut(o, i, exc) == o

Entry(i, layer, obj) ==
    [frame |-> i, layer |-> layer, kind |-> obj.kind, from |-> obj.from]

\* The record the loop body is working on: the last one yielded.
Cur == IF yielded = << >> THEN 0 ELSE yielded[Len(yielded)]

(***************************************************************************)
(* The program.                                                            *)
(***************************************************************************)
Init ==
    /\ file \in Files
    /\ srcOpen = FALSE
    /\ pc = "start"
    /\ pos = 0
    /\ pkt = NoPkt
    /\ eth = Unbound
    /\ ip = Unbound
    /\ tcp = Unbound
    /\ out = << >>
    /\ yielded = << >>
    /\ fault = NoFault
    /\ flagsByte = 0
    /\ flagsSet = NoFlags

\* f = dpkt.pcap.Reader(open(..., 'rb')), the magic number recognised.
OpenReader ==
    /\ pc = "start"
    /\ file.magic
    /\ srcOpen' = TRUE
    /\ pc' = "for"
    /\ UNCHANGED <<file, pos, pkt, eth, ip, tcp, out, yielded, fault,
                   flagsByte, flagsSet>>

\* The same statement, Reader raising ValueError('invalid tcpdump header').
OpenReaderBadMagic ==
    /\ pc = "start"
    /\ ~file.magic
    /\ srcOpen' = TRUE
    /\ fault' = [exc |-> "ValueError", at |-> "start"]
    /\ pc' = "crashed"
    /\ UNCHANGED <<file, pos, pkt, eth, ip, tcp, out, yielded,
                   flagsByte, flagsSet>>

\* for ts, pkt in f: the reader yields the next record.
ReaderYield ==
    /\ pc = "for"
    /\ pos < Len(file.recs)
    /\ pos' = ReaderAdvance(file, pos)
    /\ pkt' = ReaderBuf(file, pos + 1)
    /\ yielded' = Append(yielded, pos + 1)
    /\ pc' = "try_eth"
    /\ UNCHANGED <<file, srcOpen, eth, ip, tcp, out, fault, flagsByte, flagsSet>>

\* for ts, pkt in f: nothing is left to read, the loop and the script end.
ReaderEOF ==
    /\ pc = "for"
    /\ pos >= Len(file.recs)
    /\ file.tail # "partialHeader"
    /\ pc' = "exit"
    /\ UNCHANGED <<file, srcOpen, pos, pkt, eth, ip, tcp, out, yielded, fault,
                   flagsByte, flagsSet>>

\* for ts, pkt in f: the bytes left are too few for a record header; the
\* reader raises NeedData in the for statement, outside both try blocks.
ReaderNeedData ==
    /\ pc = "for"
    /\ pos >= Len(file.recs)
    /\ file.tail = "partialHeader"
    /\ fault' = [exc |-> "NeedData", at |-> "for"]
    /\ pc' = "crashed"
    /\ UNCHANGED <<file, srcOpen, pos, pkt, eth, ip, tcp, out, yielded,
                   flagsByte, flagsSet>>

\* try: eth = dpkt.ethernet.Ethernet(pkt)
LinkDecode ==
    /\ pc = "try_eth"
    /\ ~EthernetRaises(pkt)
    /\ eth' = Ethernet(pkt, Cur)
    /\ pc' = "print_eth"
    /\ UNCHANGED <<file, srcOpen, pos, pkt, ip, tcp, out, yielded, fault,
                   flagsByte, flagsSet>>

\* except: continue
LinkExcept ==
    /\ pc = "try_eth"
    /\ EthernetRaises(pkt)
    /\ IF Catches("NeedData")
       THEN /\ out' = LinkExceptOut(out, Cur, "NeedData")
            /\ pc' = AfterLinkExcept
            /\ fault' = fault
       ELSE /\ out' = out
            /\ pc' = "crashed"
            /\ fault' = [exc |-> "NeedData", at |-> "try_eth"]
    /\ UNCHANGED <<file, srcOpen, pos, pkt, eth, ip, tcp, yielded,
                   flagsByte, flagsSet>>

\* print(eth); print(eth.src); print(eth.dst)
PrintEth ==
    /\ pc = "print_eth"
    /\ out' = out \o << Entry(Cur, "eth", eth), Entry(Cur, "src", eth),
                        Entry(Cur, "dst", eth) >>
    /\ pc' = "get_ip"
    /\ UNCHANGED <<file, srcOpen, pos, pkt, eth, ip, tcp, yielded, fault,
                   flagsByte, flagsSet>>

\* try: ip = eth.data
GetIpSkipped ==
    /\ pc = "get_ip"
    /\ pc' = "get_tcp"
    /\ UNCHANGED <<file, srcOpen, pos, pkt, eth, ip, tcp, out, yielded, fault,
                   flagsByte, flagsSet>>
GetIp ==
    /\ pc = "get_ip"
    /\ ip' = EthData(eth)
    /\ pc' = "get_tcp"
    /\ UNCHANGED <<file, srcOpen, pos, pkt, eth, tcp, out, yielded, fault,
                   flagsByte, flagsSet>>

\* tcp = ip.data; print(ip); print(tcp)
GetTcpAndPrint ==
    /\ pc = "get_tcp"
    /\ ~DataRaises(ip)
    /\ tcp' = IpData(ip)
    /\ out' = out \o << Entry(Cur, "ip", ip), Entry(Cur, "tcp", tcp') >>
    /\ pc' = "for"
    /\ UNCHANGED <<file, srcOpen, pos, pkt, eth, ip, yielded, fault,
                   flagsByte, flagsSet>>

\* tcp = ip.data raises; except: continue
NetExcept ==
    /\ pc = "get_tcp"
    /\ DataRaises(ip)
    /\ IF Catches("AttributeError")
       THEN /\ out' = NetExceptOut(out, Cur, "AttributeError")
            /\ pc' = "for"
            /\ fault' = fault
       ELSE /\ out' = out
            /\ pc' = "crashed"
            /\ fault' = [exc |-> "AttributeError", at |-> "get_tcp"]
    /\ UNCHANGED <<file, srcOpen, pos, pkt, eth, ip, tcp, yielded,
                   flagsByte, flagsSet>>

Next ==
    \/ OpenReader
    \/ OpenReaderBadMagic
    \/ ReaderYield
    \/ ReaderEOF
    \/ ReaderNeedData
    \/ LinkDecode
    \/ LinkExcept
    \/ PrintEth
    \/ GetIp
    \/ GetTcpAndPrint
    \/ NetExcept

Spec == Init /\ [][Next]_vars

\* The interpreter runs the script's next statement whenever there is one.
FairSpec == Spec /\ WF_vars(Next)

Terminated == pc \in {"exit", "crashed"}

(***************************************************************************)
(* The flag tests of the loop body (lines kept as comments in the script). *)
(***************************************************************************)
\* dpkt.tcp's masks.
TH_FIN == 1
TH_SYN == 2
TH_RST == 4
TH_PUSH == 8
TH_ACK == 16
TH_URG == 32
TH_ECE == 64
TH_CWR == 128

\* Python's & on non-negative integers.
RECURSIVE BitAnd(_, _)
BitAnd(x, y) ==
    IF x = 0 \/ y = 0 THEN 0
    ELSE (x % 2) * (y % 2) + 2 * BitAnd(x \div 2, y \div 2)

\* xxx_flag = ( tcp.flags & dpkt.tcp.TH_XXX ) != 0, for the eight flags.
ExtractFlagsEceAsUrg(b) ==
    [fin |-> BitAnd(b, TH_FIN) # 0, syn |-> BitAnd(b, TH_SYN) # 0,
     rst |-> BitAnd(b, TH_RST) # 0, psh |-> BitAnd(b, TH_PUSH) # 0,
     ack |-> BitAnd(b, TH_ACK) # 0, urg |-> BitAnd(b, TH_URG) # 0,
     ece |-> BitAnd(b, TH_URG) # 0, cwr |-> BitAnd(b, TH_CWR) # 0]
ExtractFlags(b) ==
    [fin |-> BitAnd(b, TH_FIN) # 0, syn |-> BitAnd(b, TH_SYN) # 0,
     rst |-> BitAnd(b, TH_RST) # 0, psh |-> BitAnd(b, TH_PUSH) # 0,
     ack |-> BitAnd(b, TH_ACK) # 0, urg |-> BitAnd(b, TH_URG) # 0,
     ece |-> BitAnd(b, TH_ECE) # 0, cwr |-> BitAnd(b, TH_CWR) # 0]

\* The values of the one-byte flags field of a TCP header.
FlagBytes == 0..255

FlagInit ==
    /\ flagsByte \in FlagBytes
    /\ flagsSet = NoFlags
    /\ pc = "flags"
    /\ file = [magic |-> TRUE, recs |-> << >>, tail |-> "clean", kept |-> 0]
    /\ srcOpen = FALSE
    /\ pos = 0
    /\ pkt = NoPkt
    /\ eth = Unbound
    /\ ip = Unbound
    /\ tcp = Unbound
    /\ out = << >>
    /\ yielded = << >>
    /\ fault = NoFault

FlagTests ==
    /\ pc = "flags"
    /\ flagsSet' = ExtractFlags(flagsByte)
    /\ pc' = "flags_done"
    /\ UNCHANGED <<file, srcOpen, pos, pkt, eth, ip, tcp, out, yielded, fault,
                   flagsByte>>

FlagNext == FlagTests

FlagSpec == FlagInit /\ [][FlagNext]_vars

(***************************************************************************)
(* Properties.                                                             *)
(***************************************************************************)
InBody == pc \in {"try_eth", "print_eth", "get_ip", "get_tcp"}

BodyPlaces == {"try_eth", "print_eth", "get_ip", "get_tcp"}

\* The records whose pass through the loop body has ended without a fault.
Completed ==
    { i \in 1..Len(file.recs) :
        /\ \E k \in 1..Len(yielded) : yielded[k] = i
        /\ i = Cur => ~InBody /\ fault.at \notin BodyPlaces }

OutOf(i) == SelectSeq(out, LAMBDA e : e.frame = i)

HasEntry(i, layer, kind) ==
    \E k \in 1..Len(out) :
        out[k].frame = i /\ out[k].layer = layer /\ out[k].kind = kind

\* What the decoders make of record i of the file.
BufOf(i) == ReaderBuf(file, i)
LinkFails(i) == EthernetRaises(BufOf(i))
NetOf(i) == EthData(Ethernet(BufOf(i), i))
NetFails(i) == ~LinkFails(i) /\ DataRaises(NetOf(i))

\* C1: no decode outcome of any frame leaves the script as an uncaught
\* exception, and a frame that fails to decode does not keep the later
\* records from the loop: once the reader is open, the script ends only after
\* every record of the file has gone through the loop body.
C1_DecodeFaultsNeverEscape ==
    /\ fault.at \notin BodyPlaces
    /\ (Terminated /\ file.magic) => Len(yielded) = Len(file.recs)

C1_Witness ==
    /\ pc = "exit"
    /\ \E i, j, k \in Completed :
          /\ i < j /\ j < k
          /\ LinkFails(i) /\ NetFails(j)
          /\ HasEntry(k, "eth", "Ethernet")

C3_EachRecordOnceInOrder ==
    /\ \A k \in 1..Len(yielded) : yielded[k] = k
    /\ Len(yielded) <= Len(file.recs)
    /\ (Terminated /\ file.magic /\ file.tail = "clean") =>
          pc = "exit" /\ Len(yielded) = Len(file.recs)

C3_Witness ==
    /\ pc = "exit"
    /\ file.tail = "clean"
    /\ Len(file.recs) >= 3
    /\ yielded = <<1, 2, 3>> \o SubSeq(yielded, 4, Len(yielded))
    /\ LinkFails(1) /\ NetFails(2)

\* C4: every layer of a frame that decoded is in the output once the frame
\* is done: the link-layer lines whenever Ethernet decoded, the network line
\* whenever the network packet decoded (whether or not a segment decoded
\* inside it), the transport line whenever the segment decoded.
C4_DecodedLayersEmitted ==
    \A i \in Completed :
        /\ ~LinkFails(i) =>
              /\ HasEntry(i, "eth", "Ethernet")
              /\ HasEntry(i, "src", "Ethernet")
              /\ HasEntry(i, "dst", "Ethernet")
        /\ (~LinkFails(i) /\ NetOf(i).kind = "IP") => HasEntry(i, "ip", "IP")
        /\ (~LinkFails(i) /\ NetOf(i).kind = "IP"
              /\ IpData(NetOf(i)).kind = "TCP") => HasEntry(i, "tcp", "TCP")

C4_Witness ==
    \E i, j \in Completed :
        /\ ~LinkFails(i) /\ NetOf(i).kind = "IP"
        /\ IpData(NetOf(i)).kind = "bytes"
        /\ HasEntry(i, "ip", "IP")
        /\ NetFails(j) /\ HasEntry(j, "eth", "Ethernet")

\* C5 as stated: a record whose data are cut short by the end of the file is
\* never yielded to the loop, produces no output, and the script ends on a
\* truncated-record error.
C5_TruncatedRecordRejected ==
    file.tail = "truncatedData" =>
        /\ \A k \in 1..Len(yielded) : yielded[k] # Len(file.recs)
        /\ OutOf(Len(file.recs)) = << >>
        /\ (Terminated /\ file.magic) => fault.exc = "TruncatedRecord"

\* C6 as stated: the script never ends with the capture file still open.
C6_SourceReleasedAtEnd == Terminated => ~srcOpen

\* C7: the script ends, and the reader makes one forward pass: every yield
\* is of a record after all those yielded before, and once the script has
\* ended nothing more is yielded.
C7_OneFinitePass ==
    /\ <>Terminated
    /\ [][/\ Len(yielded') >= Len(yielded)
          /\ \A k \in 1..Len(yielded') :
                \A j \in 1..(k - 1) : yielded'[j] < yielded'[k]
          /\ Terminated => (Terminated' /\ yielded' = yielded)]_vars

C7_Witness ==
    /\ pc = "exit"
    /\ Len(file.recs) >= 2
    /\ Len(yielded) = Len(file.recs)

\* The byte put together again from the eight booleans, FIN as bit 0 up to
\* CWR as bit 7.
Bit(v) == IF v THEN 1 ELSE 0
Reassemble(fl) ==
    Bit(fl.fin) + 2 * Bit(fl.syn) + 4 * Bit(fl.rst) + 8 * Bit(fl.psh)
    + 16 * Bit(fl.ack) + 32 * Bit(fl.urg) + 64 * Bit(fl.ece) + 128 * Bit(fl.cwr)

C9_StagesInOrder ==
    /\ pc \in {"print_eth", "get_ip", "get_tcp"} => ~EthernetRaises(pkt)
    /\ pc \in {"get_ip", "get_tcp"} =>
          eth.from = Cur /\ HasEntry(Cur, "eth", "Ethernet")
    /\ \A k \in 1..Len(yielded) :
          LinkFails(yielded[k]) => OutOf(yielded[k]) = << >>
    /\ \A k \in 1..Len(out) :
          out[k].layer \in {"ip", "tcp"} =>
              \E j \in 1..(k - 1) :
                  out[j].frame = out[k].frame /\ out[j].layer = "eth"

C9_Witness ==
    /\ pc = "exit"
    /\ \E i, j \in Completed :
          /\ i < j
          /\ LinkFails(i) /\ OutOf(i) = << >>
          /\ HasEntry(j, "eth", "Ethernet") /\ HasEntry(j, "tcp", "TCP")

\* C10: every line of output was decoded from the record the loop was
\* working on when it was printed, never from an earlier one, and is what
\* the decoders make of that record's bytes alone.
C10_OutputFromCurrentFrameOnly ==
    \A k \in 1..Len(out) :
        LET e == out[k] IN
        /\ e.from = e.frame
        /\ e.layer \in {"eth", "src", "dst"} => e.kind = "Ethernet"
        /\ e.layer = "ip" => e.kind = NetOf(e.frame).kind
        /\ e.layer = "tcp" => e.kind = IpData(NetOf(e.frame)).kind

C10_Witness ==
    /\ pc = "exit"
    /\ \E i, j, k \in Completed :
          /\ i < j /\ j < k
          /\ HasEntry(i, "tcp", "TCP")
          /\ LinkFails(j)
          /\ NetFails(k) /\ Len(OutOf(k)) = 3

====
